---- MODULE Spec2Model ----
(***************************************************************************)
(* Azure DevOps tools of the remote MCP server: the parent-hierarchy       *)
(* resolver AzureDevOpsService.findParentFeature and the tool handlers     *)
(* get_work_item and find_parent_feature that run it.                      *)
(*                                                                         *)
(* src/src/tools/azure-devops.ts holds two evolutions of the module:       *)
(*   "param"  (lines 1-698): credentials are tool parameters;              *)
(*   "header" (lines 700-1179): credentials come from request headers.     *)
(* One behaviour of the model is one tool invocation of one evolution.     *)
(* ServerSpec is the worker of src/src/index.ts handling two inbound       *)
(* requests whose tool calls read their credentials from its headers.      *)
(*                                                                         *)
(* The backend is the environment.  An item whose entry in `backend` is    *)
(* not `known` is not fixed by the scenario: its answer (status, type,     *)
(* relations one by one) is drawn when the code reads it.                  *)
(***************************************************************************)
EXTENDS Integers, Sequences, FiniteSets, TLC

\* ---------------------------------------------------------------- bounds
MaxId == 5
MaxRelations == 2
\* fetches of one tool call in the request-handling specification
MaxWalk == 2

\* ------------------------------------------------------ program constants
MAX_RECURSION_DEPTH == 3
MAX_VISITED_ITEMS == 10
MAX_PARENT_RELATIONS == 3
MAX_WORK_ITEM_ID == 999999

\* ------------------------------------------------------------ vocabulary
ItemIds == 1..MaxId
TooBigId == MAX_WORK_ITEM_ID + 1
\* what the trailing digits of a relation url can parse to
TargetIds == ItemIds \cup {0, TooBigId}
\* A relation url, as the pattern /workItems\/(\d+)$/ sees it: it ends in
\* workItems/<digits> or it does not.
Url(n) == [matches |-> TRUE, digits |-> n]
NoMatchUrl == [matches |-> FALSE, digits |-> 0]
Urls == {Url(n) : n \in TargetIds} \cup {NoMatchUrl}

ParentRel == "System.LinkTypes.Hierarchy-Reverse"
ChildRel == "System.LinkTypes.Hierarchy-Forward"
RelatedRel == "System.LinkTypes.Related"
Rels == {ParentRel, ChildRel, RelatedRel}

Relation(rel, url) == [rel |-> rel, url |-> url]
\* the relations drawn for an item the scenario does not fix: parent links
\* with any url (links of other kinds are skipped unread, and appear in the
\* fixed scenarios)
AnyRelations == {Relation(ParentRel, u) : u \in Urls}
\* marks the end of a relations array
EndOfRelations == [rel |-> "end", url |-> NoMatchUrl]

WorkItemTypes == {"Task", "Feature", "Epic"}
HttpStatuses == {200, 401, 403, 404, 429, 500}

\* A backend answer to GET workitems/<id>: the request is rejected at the
\* network layer (fails), or answered with a status; a 401 body may name an
\* expired token; a 200 body carries the type and the relations.
Item(status, wtype, relations) ==
    [known |-> TRUE, fails |-> FALSE, status |-> status, expired |-> FALSE,
     wtype |-> wtype, relations |-> relations]
AnyItem ==
    [known |-> FALSE, fails |-> FALSE, status |-> 200, expired |-> FALSE,
     wtype |-> "Task", relations |-> <<>>]
\* the answers an item not fixed by the scenario can give
AnyAnswers ==
    {[known |-> FALSE, fails |-> TRUE, status |-> 200, expired |-> FALSE,
      wtype |-> "Task", relations |-> <<>>]}
    \cup {[known |-> FALSE, fails |-> FALSE, status |-> s, expired |-> e,
           wtype |-> "Task", relations |-> <<>>] :
            s \in HttpStatuses \ {200}, e \in BOOLEAN}
    \cup {[known |-> FALSE, fails |-> FALSE, status |-> 200, expired |-> FALSE,
           wtype |-> t, relations |-> <<>>] : t \in WorkItemTypes}

\* ------------------------------------------------------------- variables
VARIABLES
    variant,        \* "param" | "header": which evolution of azure-devops.ts
    tool,           \* "get_work_item" | "find_parent_feature"
    workItemId,     \* the work_item_id argument
    credsComplete,  \* the PAT and organisation URL are both supplied
    backend,        \* [ids -> answer]: the work-item graph
    hpc,            \* handler position
    identity,       \* "none" | "sent" | "ok" | "failed": validateUser
    itemRequested,  \* a work-item request was sent to the backend
    outcome,        \* the payload the tool returned ("none" while running)
    timer,          \* "off" | "armed" | "fired": the QUERY_TIMEOUT_MS timer
    rstate,         \* "idle" | "running" | "finished": the resolver
    resolved,       \* what the top-level findParentFeature call produced
    stack,          \* the active findParentFeature calls, outermost first
    visited,        \* the visited set shared by the calls of one invocation
    fetchCount      \* [ids -> Nat]: resolver fetches sent per id

\* src/src/index.ts with the header evolution: the worker that receives the
\* inbound requests and the tool calls they lead to
VARIABLES
    currentRequest, \* the module global of index.ts: 0 (null) or a request
    inbound,        \* [Requests -> headers]: the headers of each inbound request
    rpc,            \* [Requests -> position]: how far its handling has come
    config,         \* [Requests -> config]: what its tool call extracted
    visitedRef,     \* [Requests -> 0 | ref]: the Set object of its resolver call
    heap,           \* the Set objects allocated so far, by ref
    sent,           \* the backend requests sent, with their Authorization
    log             \* the entries written with console.log

server == <<currentRequest, inbound, rpc, config, visitedRef, heap, sent, log>>

\* a tool call and the call before it
VARIABLES
    callNo,         \* 1 or 2: the first call of the tool, or the one after it
    first           \* what the first call ended with (NoCall during it)

previous == <<callNo, first>>

call == <<variant, tool, workItemId, credsComplete, backend, hpc, identity,
          itemRequested, outcome, timer, rstate, resolved, stack, visited,
          fetchCount>>

vars == <<call, server, previous>>

request == <<variant, tool, workItemId, credsComplete, backend>>

\* ------------------------------------------------------- values and errors
\* Error messages, by the substrings the catch filter looks for.  "AuthFailed"
\* stands for the phrase of lines 295 and 358 (verification failed).
MsgPatExpired == [name |-> "PAT expired", includes |-> {"PAT"}]
MsgAuthFailed == [name |-> "auth failed", includes |-> {"PAT", "AuthFailed"}]
MsgApiError == [name |-> "API error", includes |-> {}]
MsgFetchFailed == [name |-> "fetch failed", includes |-> {}]
NoMsg == [name |-> "", includes |-> {}]

\* what a findParentFeature call produces
Null == [kind |-> "null", id |-> 0, msg |-> NoMsg]
Found(id) == [kind |-> "item", id |-> id, msg |-> NoMsg]
Throw(msg) == [kind |-> "throw", id |-> 0, msg |-> msg]
Expand == [kind |-> "expand", id |-> 0, msg |-> NoMsg]
Pending == [kind |-> "none", id |-> 0, msg |-> NoMsg]

isValidWorkItemId(id) == id > 0 /\ id <= MAX_WORK_ITEM_ID

\* isRootType that knows the Epic only
isRootTypeEpicOnly(wtype) == wtype = "Epic"

\* workItemType === "Feature" || workItemType === "Epic"
isRootType(wtype) == wtype = "Feature" \/ wtype = "Epic"

\* PassesGuards without the cycle check
PassesGuardsNoVisited(id, vis, depth) ==
    /\ ~(depth > MAX_RECURSION_DEPTH)
    /\ ~(Cardinality(vis) > MAX_VISITED_ITEMS)
    /\ isValidWorkItemId(id)

\* PassesGuards with the depth check off by one on either side
PassesGuardsDepthEarly(id, vis, depth) ==
    /\ ~(id \in vis)
    /\ ~(depth >= MAX_RECURSION_DEPTH)
    /\ ~(Cardinality(vis) > MAX_VISITED_ITEMS)
    /\ isValidWorkItemId(id)

PassesGuardsDepthLate(id, vis, depth) ==
    /\ ~(id \in vis)
    /\ ~(depth > MAX_RECURSION_DEPTH + 1)
    /\ ~(Cardinality(vis) > MAX_VISITED_ITEMS)
    /\ isValidWorkItemId(id)

\* the checks at the head of findParentFeature
PassesGuards(id, vis, depth) ==
    /\ ~(id \in vis)
    /\ ~(depth > MAX_RECURSION_DEPTH)
    /\ ~(Cardinality(vis) > MAX_VISITED_ITEMS)
    /\ isValidWorkItemId(id)

\* a default argument evaluated once: the Set of the call before
DefaultVisitedLeftOver == visited

\* visited = new Set<number>(): the default argument of a top-level call
DefaultVisited == {}

\* visited.add left out
MarkVisitedForgotten(vis, id) == vis

\* visited.add(workItemId)
MarkVisited(vis, id) == vis \cup {id}

\* CatchFilter that looks for the second phrase only
CatchFilterAuthFailedOnly(msg) == "AuthFailed" \in msg.includes

\* the catch block of findParentFeature
CatchFilter(msg) == "PAT" \in msg.includes \/ "AuthFailed" \in msg.includes

\* no catch block: what the try block raised is raised by the call
CatchNothing(v) == v

Catch(v) ==
    IF v.kind # "throw" THEN v
    ELSE IF variant = "param" /\ CatchFilter(v.msg) THEN v
    ELSE Null

\* Classify that takes a 404 for a rejected credential
ClassifyNotFoundFatal(id, a) ==
    IF a.fails THEN Throw(MsgFetchFailed)
    ELSE IF a.status # 200 THEN
        IF variant = "header" THEN Null
        ELSE IF a.status = 404 \/ a.status = 401 THEN
            (IF a.expired THEN Throw(MsgPatExpired) ELSE Throw(MsgAuthFailed))
        ELSE IF a.status = 429 THEN Null
        ELSE Throw(MsgApiError)
    ELSE IF isRootType(a.wtype) THEN Found(id)
    ELSE Expand

\* what the body of the try block makes of the answer to its fetch
Classify(id, a) ==
    IF a.fails THEN Throw(MsgFetchFailed)
    ELSE IF a.status # 200 THEN
        IF variant = "header" THEN Null
        ELSE IF a.status = 404 THEN Null
        ELSE IF a.status = 401 THEN
            (IF a.expired THEN Throw(MsgPatExpired) ELSE Throw(MsgAuthFailed))
        ELSE IF a.status = 429 THEN Null
        ELSE Throw(MsgApiError)
    ELSE IF isRootType(a.wtype) THEN Found(id)
    ELSE Expand

\* the answers of the backend for one item, and its relation at an index
Answers(id) == IF backend[id].known THEN {backend[id]} ELSE AnyAnswers

RelationsAt(id, idx) ==
    IF backend[id].known
    THEN IF idx < Len(backend[id].relations)
         THEN {backend[id].relations[idx + 1]}
         ELSE {EndOfRelations}
    ELSE IF idx < MaxRelations
         THEN AnyRelations \cup {EndOfRelations}
         ELSE {EndOfRelations}

Frame(id) == [id |-> id, pc |-> "added", idx |-> 0, parentCount |-> 0]

Front(s) == SubSeq(s, 1, Len(s) - 1)

\* Unwind whose callers drop the item a parent call returned
RECURSIVE UnwindDropsItem(_, _)
UnwindDropsItem(callers, v) ==
    IF callers = <<>> THEN [stack |-> <<>>, value |-> v]
    ELSE LET f == callers[Len(callers)] IN
         IF v.kind = "null" \/ v.kind = "item"
         THEN [stack |-> Front(callers) \o <<[f EXCEPT !.pc = "loop", !.idx = @ + 1]>>,
               value |-> Pending]
         ELSE UnwindDropsItem(Front(callers), Catch(v))

\* A call that ended with value v hands it to its callers: an item is
\* returned by every caller in turn, an error goes through every caller's
\* catch block, and null lets the nearest caller go on with its next relation.
RECURSIVE Unwind(_, _)
Unwind(callers, v) ==
    IF callers = <<>> THEN [stack |-> <<>>, value |-> v]
    ELSE LET f == callers[Len(callers)] IN
         IF v.kind = "null"
         THEN [stack |-> Front(callers) \o <<[f EXCEPT !.pc = "loop", !.idx = @ + 1]>>,
               value |-> Pending]
         ELSE Unwind(Front(callers), Catch(v))

\* -------------------------------------------------------------- scenarios
\* the ids no request can name a work item with
OutOfRange(b) == [i \in TargetIds |-> IF i \in ItemIds THEN b[i] ELSE Item(404, "Task", <<>>)]

\* nothing fixed: every answer is drawn when it is read
AnyBackend == OutOfRange([i \in ItemIds |-> AnyItem])

ParentLink(n) == Relation(ParentRel, Url(n))

\* 1 -> 2 -> ... -> MaxId, one parent link each, every fetch succeeds
ChainBackends ==
    {OutOfRange([i \in ItemIds |->
        Item(200, types[i], IF i < MaxId THEN <<ParentLink(i + 1)>> ELSE <<>>)]) :
     types \in [ItemIds -> {"Task", "Feature"}]}

\* a parent cycle through the first n items: 1 -> 2 -> ... -> n -> 1
Cycle(n) ==
    OutOfRange([i \in ItemIds |->
        IF i < n THEN Item(200, "Task", <<ParentLink(i + 1)>>)
        ELSE IF i = n THEN Item(200, "Task", <<ParentLink(1)>>)
        ELSE AnyItem])

CycleBackends == {Cycle(n) : n \in 1..3}

\* 1 has a child link and the parent links 2 and 3.  2 is a leaf of any
\* status and type, or has one parent link (to 3 or to 4), or is not fixed;
\* 3 is a leaf or not fixed; 4 is a Feature, or missing, or not fixed.
LeafItems == {Item(s, t, <<>>) : s \in {200, 404, 429}, t \in {"Task", "Feature"}}

Fork(second, third, fourth) ==
    OutOfRange([i \in ItemIds |->
        IF i = 1 THEN Item(200, "Task", <<Relation(ChildRel, Url(MaxId)),
                                          ParentLink(2), ParentLink(3)>>)
        ELSE IF i = 2 THEN second
        ELSE IF i = 3 THEN third
        ELSE IF i = 4 THEN fourth
        ELSE AnyItem])

ForkBackends ==
    {Fork(second, third, fourth) :
        second \in LeafItems \cup {AnyItem}
                   \cup {Item(200, "Task", <<ParentLink(h)>>) : h \in {3, 4}},
        third \in LeafItems \cup {AnyItem},
        fourth \in {AnyItem, Item(200, "Feature", <<>>), Item(404, "Task", <<>>)}}

\* A tree of plain items, every fetch succeeds: item 1 and each of its
\* parents have MAX_PARENT_RELATIONS parent links; the items two links above
\* item 1 have none.  The parents of i are 3i-1, 3i and 3i+1.
TreeIds == 1..(1 + MAX_PARENT_RELATIONS + MAX_PARENT_RELATIONS * MAX_PARENT_RELATIONS)

TreeParents(i) ==
    [k \in 1..MAX_PARENT_RELATIONS |-> ParentLink(MAX_PARENT_RELATIONS * (i - 1) + 1 + k)]

Tree ==
    [i \in TargetIds \cup TreeIds |->
        IF i \in TreeIds
        THEN Item(200, "Task", IF i <= 1 + MAX_PARENT_RELATIONS THEN TreeParents(i) ELSE <<>>)
        ELSE Item(404, "Task", <<>>)]

\* Item 1 has four parent links, among links of other kinds; the items they
\* name are plain leaves, but the last one may be a Feature.
Wide(links, last) ==
    OutOfRange([i \in ItemIds |->
        IF i = 1 THEN Item(200, "Task", links)
        ELSE IF i = MaxId THEN last
        ELSE Item(200, "Task", <<>>)])

WideLinks ==
    {<<ParentLink(2), ParentLink(3), ParentLink(4), ParentLink(MaxId)>>,
     <<Relation(ChildRel, Url(3)), ParentLink(2), Relation(ParentRel, NoMatchUrl),
       Relation(RelatedRel, Url(3)), ParentLink(4), ParentLink(MaxId)>>}

WideBackends ==
    {Wide(links, last) : links \in WideLinks,
                         last \in {Item(200, "Task", <<>>), Item(200, "Feature", <<>>)}}

\* the answers of an item whose fetch does not succeed: a status that is not
\* ok (a 401 body may name an expired token), or a rejected request
FailedItems ==
    {Item(s, "Task", <<>>) : s \in HttpStatuses \ {200}}
    \cup {[Item(401, "Task", <<>>) EXCEPT !.expired = TRUE],
          [Item(200, "Task", <<>>) EXCEPT !.fails = TRUE]}

\* A chain 1 -> 2 -> ... whose item at depth d (item d + 1) fails with the
\* given answer.  Every item below it is a plain item that names the next
\* item of the chain as its first parent and a Feature (item MaxId) as its
\* second.
StatusChain(d, failed) ==
    OutOfRange([i \in ItemIds |->
        IF i <= d THEN Item(200, "Task", <<ParentLink(i + 1), ParentLink(MaxId)>>)
        ELSE IF i = d + 1 THEN failed
        ELSE IF i = MaxId THEN Item(200, "Feature", <<>>)
        ELSE AnyItem])

StatusChainBackends ==
    {StatusChain(d, failed) : d \in 0..MAX_RECURSION_DEPTH, failed \in FailedItems}

\* a Task under a Feature under an Epic
Hierarchy ==
    OutOfRange([i \in ItemIds |->
        IF i = 1 THEN Item(200, "Task", <<ParentLink(2)>>)
        ELSE IF i = 2 THEN Item(200, "Feature", <<ParentLink(3)>>)
        ELSE IF i = 3 THEN Item(200, "Epic", <<>>)
        ELSE AnyItem])

Backends ==
    {AnyBackend} \cup ChainBackends \cup CycleBackends \cup ForkBackends
    \cup {Tree} \cup WideBackends \cup StatusChainBackends \cup {Hierarchy}

\* ----------------------------------------------------------------- worker
\* two inbound requests, from two clients
Requests == {1, 2}
NoRequest == 0

\* A header value as text: in the clear, or Basic-encoded (btoa) as
\* getAuthHeaders builds the Authorization header.
Clear(text) == [enc |-> "clear", text |-> text]
Basic(text) == [enc |-> "basic", text |-> text]
Absent == Clear("")

Pat(r) == IF r = 1 THEN "pat-1" ELSE "pat-2"
OrgUrl(r) == IF r = 1 THEN "https://dev.azure.com/org-1" ELSE "https://dev.azure.com/org-2"
Pats == {Pat(r) : r \in Requests}

\* the headers of an inbound request: the client's credentials, or none
Credentials(r) == [pat |-> Clear(Pat(r)), orgUrl |-> Clear(OrgUrl(r))]
EmptyHeaders == [pat |-> Absent, orgUrl |-> Absent]

NoConfig == [pat |-> "", orgUrl |-> ""]

\* getCurrentRequestHeaders()
getCurrentRequestHeaders ==
    IF currentRequest = NoRequest THEN EmptyHeaders ELSE inbound[currentRequest]

\* a line written with console.log
LogEntry(by, key, value) == [by |-> by, key |-> key, value |-> value]

\* no request received yet
ServerIdle ==
    /\ currentRequest = NoRequest
    /\ rpc = [r \in Requests |-> "idle"]
    /\ config = [r \in Requests |-> NoConfig]
    /\ visitedRef = [r \in Requests |-> 0]
    /\ heap = <<>>
    /\ sent = {}
    /\ log = {}

\* what a call ended with
Ended(o, v, fetches) == [outcome |-> o, resolved |-> v, fetches |-> fetches]
NoCall == Ended("none", Pending, <<>>)

\* ------------------------------------------------------------------- Init
Init ==
    /\ callNo = 1
    /\ first = NoCall
    /\ inbound = [r \in Requests |-> EmptyHeaders]
    /\ ServerIdle
    /\ variant \in {"param", "header"}
    /\ tool \in {"get_work_item", "find_parent_feature"}
    /\ workItemId \in {1, TooBigId}
    /\ credsComplete \in BOOLEAN
    /\ backend \in Backends
    /\ hpc = "start"
    /\ identity = "none"
    /\ itemRequested = FALSE
    /\ outcome = "none"
    /\ timer = "off"
    /\ rstate = "idle"
    /\ resolved = Pending
    /\ stack = <<>>
    /\ visited = {}
    /\ fetchCount = [i \in DOMAIN backend |-> 0]

\* ---------------------------------------------------------------- handlers
\* the payload a handler builds from what the resolver produced
PayloadOf(v) ==
    IF v.kind = "throw" THEN "error"
    ELSE IF tool = "get_work_item"
         THEN (IF v.kind = "item" THEN "item_with_parent" ELSE "item_without_parent")
         ELSE (IF v.kind = "item" THEN "found" ELSE "notfound")

\* Finish whose result replaces what the handler already returned
FinishAlwaysReports(v) ==
    /\ rstate' = "finished"
    /\ resolved' = v
    /\ stack' = <<>>
    /\ hpc' = "done"
    /\ outcome' = PayloadOf(v)

\* The top-level findParentFeature call ended with v: the handler that awaits
\* it returns its payload, unless the race was already settled by the timer.
Finish(v) ==
    /\ rstate' = "finished"
    /\ resolved' = v
    /\ stack' = <<>>
    /\ IF hpc = "resolving"
       THEN hpc' = "done" /\ outcome' = PayloadOf(v)
       ELSE UNCHANGED <<hpc, outcome>>

\* a call ended with v below the frames `callers`
Return(callers, v) ==
    LET u == Unwind(callers, v) IN
    IF u.value.kind = "none"
    THEN stack' = u.stack /\ UNCHANGED <<rstate, resolved, hpc, outcome>>
    ELSE Finish(u.value)

\* GetWorkItemSchema.parse / FindParentFeatureSchema.parse (param),
\* extractAzureDevOpsConfig (header)
ReadConfig ==
    /\ hpc = "start"
    /\ IF credsComplete
       THEN hpc' = "ready" /\ outcome' = outcome
       ELSE hpc' = "done" /\ outcome' = "error"
    /\ UNCHANGED <<server, previous, request, identity, itemRequested, timer, rstate, resolved,
                   stack, visited, fetchCount>>

\* validateUser: the identity request is sent
validateUserSend ==
    /\ variant = "param"
    /\ hpc = "ready"
    /\ identity' = "sent"
    /\ hpc' = "validating"
    /\ UNCHANGED <<server, previous, request, itemRequested, outcome, timer, rstate, resolved,
                   stack, visited, fetchCount>>

\* the answers to the identity request: rejected at the network layer, or a
\* status
IdentityAnswers ==
    {[fails |-> TRUE, status |-> 200]}
    \cup {[fails |-> FALSE, status |-> st] : st \in HttpStatuses}

\* validateUser that throws on 401 only
validateUserThrowsOn401Only(a) == a.fails \/ a.status = 401

\* validateUser throws: the request failed, or the answer is not ok
validateUserThrows(a) == a.fails \/ a.status # 200

\* validateUser: the identity request is answered, or fails; `identity`
\* records whether the backend accepted the credential
validateUserResponse ==
    /\ hpc = "validating"
    /\ \E a \in IdentityAnswers :
         /\ identity' = IF ~a.fails /\ a.status = 200 THEN "ok" ELSE "failed"
         /\ IF validateUserThrows(a)
            THEN hpc' = "done" /\ outcome' = "error"
            ELSE hpc' = "validated" /\ outcome' = outcome
    /\ UNCHANGED <<server, previous, request, itemRequested, timer, rstate, resolved, stack,
                   visited, fetchCount>>

\* getWorkItem: the request for the item is sent
getWorkItemSend ==
    /\ tool = "get_work_item"
    /\ \/ variant = "param" /\ hpc = "validated"
       \/ variant = "header" /\ hpc = "ready"
    /\ itemRequested' = TRUE
    /\ hpc' = "getting"
    /\ UNCHANGED <<server, previous, request, identity, outcome, timer, rstate, resolved, stack,
                   visited, fetchCount>>

\* getWorkItem: the answer; every failure is thrown to the handler
getWorkItemResponse ==
    /\ hpc = "getting"
    /\ \E a \in Answers(workItemId) :
         IF a.fails \/ a.status # 200
         THEN hpc' = "done" /\ outcome' = "error"
         ELSE IF variant = "param"
              THEN hpc' = "done" /\ outcome' = "item"
              ELSE hpc' = "got" /\ outcome' = outcome
    /\ UNCHANGED <<server, previous, request, identity, itemRequested, timer, rstate, resolved,
                   stack, visited, fetchCount>>

\* the id check of the param find_parent_feature handler
RejectWorkItemId ==
    /\ variant = "param" /\ tool = "find_parent_feature"
    /\ hpc = "validated"
    /\ ~isValidWorkItemId(workItemId)
    /\ hpc' = "done"
    /\ outcome' = "error"
    /\ UNCHANGED <<server, previous, request, identity, itemRequested, timer, rstate, resolved,
                   stack, visited, fetchCount>>

\* service.findParentFeature(work_item_id): the top-level call, with a fresh
\* visited set; the param handler races it against the timer
CallResolver ==
    /\ \/ variant = "param" /\ tool = "find_parent_feature" /\ hpc = "validated"
          /\ isValidWorkItemId(workItemId)
       \/ variant = "header" /\ tool = "find_parent_feature" /\ hpc = "ready"
       \/ variant = "header" /\ tool = "get_work_item" /\ hpc = "got"
    /\ timer' = IF variant = "param" THEN "armed" ELSE timer
    /\ IF PassesGuards(workItemId, DefaultVisited, 0)
       THEN /\ visited' = MarkVisited(DefaultVisited, workItemId)
            /\ stack' = <<Frame(workItemId)>>
            /\ rstate' = "running"
            /\ hpc' = "resolving"
            /\ UNCHANGED <<resolved, outcome>>
       ELSE /\ visited' = DefaultVisited
            /\ rstate' = "finished"
            /\ resolved' = Null
            /\ stack' = <<>>
            /\ hpc' = "done"
            /\ outcome' = PayloadOf(Null)
    /\ UNCHANGED <<server, previous, request, identity, itemRequested, fetchCount>>

\* the QUERY_TIMEOUT_MS timer fires: it settles the race if the resolver has
\* not; the resolver is not cancelled
TimerFires ==
    /\ timer = "armed"
    /\ timer' = "fired"
    /\ IF hpc = "resolving"
       THEN hpc' = "done" /\ outcome' = "timeout"
       ELSE UNCHANGED <<hpc, outcome>>
    /\ UNCHANGED <<server, previous, request, identity, itemRequested, rstate, resolved, stack,
                   visited, fetchCount>>

\* ---------------------------------------------------------------- resolver
Top == stack[Len(stack)]
Depth == Len(stack) - 1
SetTop(f) == [stack EXCEPT ![Len(stack)] = f]

\* the start item is delayed too
NeedsDelayAlways(depth) == depth >= 0

\* if (depth > 0): the call pauses before its fetch
NeedsDelay(depth) == depth > 0

\* the API_DELAY_MS pause before a fetch at depth > 0
Delay ==
    /\ stack # <<>>
    /\ Top.pc = "added"
    /\ NeedsDelay(Depth)
    /\ stack' = SetTop([Top EXCEPT !.pc = "delayed"])
    /\ UNCHANGED <<server, previous, request, hpc, identity, itemRequested, outcome, timer,
                   rstate, resolved, visited, fetchCount>>

\* fetch(url): the request for the item with its relations is sent
SendFetch ==
    /\ stack # <<>>
    /\ \/ Top.pc = "added" /\ ~NeedsDelay(Depth)
       \/ Top.pc = "delayed"
    /\ stack' = SetTop([Top EXCEPT !.pc = "fetching"])
    /\ fetchCount' = [fetchCount EXCEPT ![Top.id] = @ + 1]
    /\ itemRequested' = TRUE
    /\ UNCHANGED <<server, previous, request, hpc, identity, outcome, timer, rstate, resolved,
                   visited>>

\* the answer to the fetch: not ok, a root-type item, or an item to expand
FetchResponse ==
    /\ stack # <<>>
    /\ Top.pc = "fetching"
    /\ \E a \in Answers(Top.id) :
         LET v == Classify(Top.id, a) IN
         IF v.kind = "expand"
         THEN /\ stack' = SetTop([Top EXCEPT !.pc = "loop"])
              /\ UNCHANGED <<rstate, resolved, hpc, outcome>>
         ELSE Return(Front(stack), Catch(v))
    /\ UNCHANGED <<server, previous, request, identity, itemRequested, timer, visited, fetchCount>>

\* a link check that takes child links too
isParentLinkOrChild(r) == r.rel = ParentRel \/ r.rel = ChildRel

\* relation.rel === "System.LinkTypes.Hierarchy-Reverse"
isParentLink(r) == r.rel = ParentRel

\* one iteration of the loop over workItem.relations
NextRelation ==
    /\ stack # <<>>
    /\ Top.pc = "loop"
    /\ \E r \in RelationsAt(Top.id, Top.idx) :
         LET count == IF variant = "param" THEN Top.parentCount + 1 ELSE Top.parentCount
             parentId == r.url.digits
             skip == [Top EXCEPT !.idx = @ + 1]
         IN
         IF r = EndOfRelations
         THEN Return(Front(stack), Null) /\ UNCHANGED visited
         ELSE IF ~isParentLink(r)
         THEN stack' = SetTop(skip)
              /\ UNCHANGED <<visited, rstate, resolved, hpc, outcome>>
         ELSE IF variant = "param" /\ count > MAX_PARENT_RELATIONS
         THEN Return(Front(stack), Null) /\ UNCHANGED visited
         ELSE IF ~r.url.matches
                 \/ (variant = "param" /\ ~isValidWorkItemId(parentId))
                 \/ ~PassesGuards(parentId, visited, Depth + 1)
         THEN stack' = SetTop([skip EXCEPT !.parentCount = count])
              /\ UNCHANGED <<visited, rstate, resolved, hpc, outcome>>
         ELSE /\ visited' = MarkVisited(visited, parentId)
              /\ stack' = Append(SetTop([Top EXCEPT !.pc = "await", !.parentCount = count]),
                                 Frame(parentId))
              /\ UNCHANGED <<rstate, resolved, hpc, outcome>>
    /\ UNCHANGED <<server, previous, request, identity, itemRequested, timer, fetchCount>>

Next ==
    \/ ReadConfig
    \/ validateUserSend
    \/ validateUserResponse
    \/ getWorkItemSend
    \/ getWorkItemResponse
    \/ RejectWorkItemId
    \/ CallResolver
    \/ TimerFires
    \/ Delay
    \/ SendFetch
    \/ FetchResponse
    \/ NextRelation

Spec == Init /\ [][Next]_vars

\* The steps of the resolver.  The event loop runs every continuation that is
\* ready, the delay timer fires, and every fetch settles (with an answer or a
\* rejection): a resolver step that can be taken is eventually taken.
ResolverStep == Delay \/ SendFetch \/ FetchResponse \/ NextRelation

\* The find_parent_feature tool of either evolution, called with complete
\* credentials on a graph that is not fixed or that is a cycle, under that
\* scheduling.
LiveInit ==
    /\ Init
    /\ tool = "find_parent_feature"
    /\ credsComplete
    /\ workItemId = 1
    /\ backend \in {AnyBackend} \cup CycleBackends

LiveNext ==
    \/ ReadConfig
    \/ validateUserSend
    \/ validateUserResponse
    \/ CallResolver
    \/ TimerFires
    \/ ResolverStep

LiveSpec == LiveInit /\ [][LiveNext]_vars /\ WF_vars(ResolverStep)

\* ------------------------------------------------------- request handling
\* default.fetch: every header of the request is logged, then the request is
\* routed to the MCP agent
Receive(r) ==
    /\ rpc[r] = "idle"
    /\ rpc' = [rpc EXCEPT ![r] = "received"]
    /\ log' = log \cup {LogEntry("default.fetch", "x-azure-devops-pat", inbound[r].pat),
                         LogEntry("default.fetch", "x-azure-devops-org-url", inbound[r].orgUrl)}
    /\ UNCHANGED <<call, previous, currentRequest, inbound, config, visitedRef, heap, sent>>

\* MyMCP.onSSEMcpMessage: the request is stored in the module global, then
\* the handling of the message is awaited
onSSEMcpMessage(r) ==
    /\ rpc[r] = "received"
    /\ currentRequest' = r
    /\ rpc' = [rpc EXCEPT ![r] = "stored"]
    /\ UNCHANGED <<call, previous, inbound, config, visitedRef, heap, sent, log>>

\* The tool handler of the message starts: extractAzureDevOpsConfig reads
\* the headers of the current request and throws when the PAT or the
\* organisation URL is missing; else the service is built and
\* findParentFeature is called with a new Set.
ToolCall(r) ==
    /\ rpc[r] = "stored"
    /\ LET headers == getCurrentRequestHeaders IN
       IF headers.pat.text = "" \/ headers.orgUrl.text = ""
       THEN /\ rpc' = [rpc EXCEPT ![r] = "done"]
            /\ UNCHANGED <<config, visitedRef, heap>>
       ELSE /\ config' = [config EXCEPT ![r] = [pat |-> headers.pat.text,
                                                orgUrl |-> headers.orgUrl.text]]
            /\ heap' = Append(heap, {})
            /\ visitedRef' = [visitedRef EXCEPT ![r] = Len(heap) + 1]
            /\ rpc' = [rpc EXCEPT ![r] = "resolving"]
    /\ UNCHANGED <<call, previous, currentRequest, inbound, sent, log>>

\* a findParentFeature call of the tool passes its guards: the id is added
\* to the Set of the call, the item is requested with the Authorization
\* header of the service, and the call is logged
ToolFetch(r, id) ==
    /\ rpc[r] = "resolving"
    /\ Cardinality(heap[visitedRef[r]]) < MaxWalk
    /\ PassesGuards(id, heap[visitedRef[r]], 0)
    /\ heap' = [heap EXCEPT ![visitedRef[r]] = MarkVisited(@, id)]
    /\ sent' = sent \cup {[by |-> r, url |-> config[r].orgUrl, id |-> id,
                           authorization |-> Basic(config[r].pat)]}
    /\ log' = log \cup {LogEntry("logApiCall", config[r].orgUrl, Clear("GET"))}
    /\ UNCHANGED <<call, previous, currentRequest, inbound, rpc, config, visitedRef>>

\* the tool returns and the handling of the message completes
ToolReturn(r) ==
    /\ rpc[r] = "resolving"
    /\ rpc' = [rpc EXCEPT ![r] = "done"]
    /\ UNCHANGED <<call, previous, currentRequest, inbound, config, visitedRef, heap, sent, log>>

\* The worker receives two requests; the variables of the single tool
\* invocation of Spec stay at rest.
ServerInit ==
    /\ inbound \in [Requests -> {EmptyHeaders} \cup {Credentials(r) : r \in Requests}]
    /\ \A r \in Requests : inbound[r] \in {EmptyHeaders, Credentials(r)}
    /\ ServerIdle
    /\ callNo = 1 /\ first = NoCall
    /\ variant = "header" /\ tool = "find_parent_feature" /\ workItemId = 1
    /\ credsComplete = TRUE /\ backend = AnyBackend
    /\ hpc = "start" /\ identity = "none" /\ itemRequested = FALSE
    /\ outcome = "none" /\ timer = "off" /\ rstate = "idle"
    /\ resolved = Pending /\ stack = <<>> /\ visited = {}
    /\ fetchCount = [i \in DOMAIN backend |-> 0]

ServerNext ==
    \/ \E r \in Requests : Receive(r)
    \/ \E r \in Requests : onSSEMcpMessage(r)
    \/ \E r \in Requests : ToolCall(r)
    \/ \E r \in Requests, id \in ItemIds : ToolFetch(r, id)
    \/ \E r \in Requests : ToolReturn(r)

ServerSpec == ServerInit /\ [][ServerNext]_vars

\* ------------------------------------------------------------------ claims
RECURSIVE SumFetches(_)
SumFetches(S) ==
    IF S = {} THEN 0
    ELSE LET i == CHOOSE j \in S : TRUE IN fetchCount[i] + SumFetches(S \ {i})

TotalFetches == SumFetches(DOMAIN fetchCount)

Finished == rstate = "finished"

\* C1: a resolver invocation, of either evolution, on any graph (self-links,
\* cycles, dangling and invalid parent ids) and under any fetch outcomes,
\* reaches a terminal outcome after finitely many fetches: the calls never
\* nest deeper than the depth bound allows, no more fetches are sent than
\* there are items, and a running resolver eventually finishes.
C1_Terminates ==
    /\ [](Len(stack) <= MAX_RECURSION_DEPTH + 1 /\ TotalFetches <= MaxId)
    /\ (rstate = "running") ~> Finished

\* the walk from a self-linked item has ended
C1_Witness == backend = Cycle(1) /\ workItemId = 1 /\ Finished /\ fetchCount[1] = 1

\* C2: within one resolver invocation no work-item id is requested more
\* than once.
C2_NoRefetch == \A i \in TargetIds : fetchCount[i] <= 1

\* the walk round a three-item cycle has ended: 3 named 1 as its parent
C2_Witness ==
    /\ backend = Cycle(3) /\ workItemId = 1 /\ Finished
    /\ \A i \in 1..3 : fetchCount[i] = 1

\* C3: 1 and 2 name each other as parent, both not root-type, both fetches
\* succeed: the resolver returns null, raises nothing, and fetches each once.
C3_CycleSafe ==
    (backend = Cycle(2) /\ workItemId = 1) =>
        /\ fetchCount[1] <= 1 /\ fetchCount[2] <= 1
        /\ Finished => (resolved = Null /\ fetchCount[1] = 1 /\ fetchCount[2] = 1)

C3_Witness ==
    /\ backend = Cycle(2) /\ workItemId = 1 /\ Finished
    /\ resolved = Null /\ visited = {1, 2}

\* the item a fixed 200 answer with one parent link names as parent
OnlyParent(b, i) == b[i].relations[1].url.digits

Succeeds(b, i) == b[i].known /\ ~b[i].fails /\ b[i].status = 200

IsRoot(b, i) == Succeeds(b, i) /\ isRootType(b[i].wtype)

HopsTo(b, i, h) ==
    Succeeds(b, i) /\ ~isRootType(b[i].wtype) /\ b[i].relations = <<ParentLink(h)>>

\* In a fork, the sub-walk through the first parent link of item 1 yields a
\* root-type item: item 2 itself, or the parent of item 2.
FirstLinkYields(b) ==
    \/ IsRoot(b, 2)
    \/ \E h \in {3, 4} : HopsTo(b, 2, h) /\ IsRoot(b, h)

FirstLinkItem(b) == IF IsRoot(b, 2) THEN 2 ELSE OnlyParent(b, 2)

ForkWalked == backend \in ForkBackends /\ workItemId = 1 /\ Finished

\* C4 as claimed: when the sub-walk through the first of two parent links
\* yields a root-type item, the target of the second link is never fetched.
C4_SecondTargetNeverFetched ==
    (ForkWalked /\ FirstLinkYields(backend)) =>
        (resolved.kind = "item" /\ fetchCount[3] = 0)

\* C4 amended: when the sub-walk through the first of two parent links
\* yields a root-type item, the resolver returns that item and never follows
\* the second link: no fetch is sent beyond the path to the item, so the
\* target of the second link is fetched only if it lies on that path.
C4_FirstMatch ==
    (ForkWalked /\ FirstLinkYields(backend)) =>
        /\ resolved = Found(FirstLinkItem(backend))
        /\ FirstLinkItem(backend) # 3 => fetchCount[3] = 0
        /\ TotalFetches = (IF IsRoot(backend, 2) THEN 2 ELSE 3)

\* the first link led to a Feature over two hops while the second link
\* names a Feature too
C4_Witness ==
    /\ ForkWalked
    /\ HopsTo(backend, 2, 4) /\ IsRoot(backend, 4) /\ IsRoot(backend, 3)
    /\ resolved = Found(4) /\ fetchCount[3] = 0

\* In a fork, the branch through the first parent link of item 1 ends in a
\* 404 or 429: at item 2 (depth 1) or at the parent of item 2 (depth 2).
FirstBranchMissing(b) ==
    \/ b[2].known /\ ~b[2].fails /\ b[2].status \in {404, 429}
    \/ HopsTo(b, 2, 4) /\ b[4].known /\ b[4].status = 404

\* C5: a 404 or 429 for an item fetched at depth >= 1 ends that branch only:
\* nothing is raised and the next parent candidate is expanded, so a
\* root-type item behind the second link is returned; when the second link
\* leads nowhere either the result is null, and the tool reports no ancestor
\* and no error (unless the timer ended the call first).
C5_Absorbs ==
    (ForkWalked /\ FirstBranchMissing(backend) /\ backend[3].known) =>
        IF IsRoot(backend, 3)
        THEN /\ resolved = Found(3)
             /\ (hpc = "done" /\ outcome # "timeout")
                    => outcome \in {"found", "item_with_parent"}
        ELSE /\ resolved = Null
             /\ (hpc = "done" /\ outcome # "timeout")
                    => outcome \in {"notfound", "item_without_parent"}

\* the param resolver went past a missing first parent to the Feature behind
\* the second link
C5_Witness ==
    /\ ForkWalked /\ variant = "param"
    /\ backend[2] = Item(404, "Task", <<>>) /\ IsRoot(backend, 3)
    /\ resolved = Found(3) /\ fetchCount[2] = 1

\* C6: in the param get_work_item and find_parent_feature, when identity
\* validation fails (incomplete credentials, a status that is not ok, a
\* failed request) no work-item request is sent and the tool returns an
\* error payload.
C6_AuthPrecedence ==
    variant = "param" =>
        /\ identity # "ok" => (~itemRequested /\ rstate = "idle")
        /\ identity = "failed" => (hpc = "done" /\ outcome = "error")
        /\ (~credsComplete /\ hpc = "done") => (outcome = "error" /\ identity = "none")

C6_Witness ==
    /\ variant = "param" /\ identity = "failed"
    /\ hpc = "done" /\ outcome = "error" /\ ~itemRequested

\* C7 as claimed: every get_work_item and find_parent_feature invocation of
\* either evolution has its identity validated before its first work-item
\* request.
C7_IdentityFirst == itemRequested => identity = "ok"

\* C8 as claimed: find_parent_feature never returns the start item itself.
C8_NeverSelf ==
    (tool = "find_parent_feature" /\ Finished /\ resolved.kind = "item")
        => resolved.id # workItemId

ChainWalked == backend \in ChainBackends /\ workItemId = 1 /\ Finished

\* the first root-type item of the chain is item i
FirstRootAt(b, i) == isRootType(b[i].wtype) /\ \A j \in 1..(i - 1) : ~isRootType(b[j].wtype)

\* C9: on a chain of single parent links where every fetch succeeds, the
\* resolver started on a non-root item returns the first root-type item
\* when it is 1, 2 or 3 links above the start.
C9_ChainFound ==
    \A k \in 1..MAX_RECURSION_DEPTH :
        (ChainWalked /\ FirstRootAt(backend, 1 + k)) => resolved = Found(1 + k)

C9_Witness ==
    /\ ChainWalked /\ FirstRootAt(backend, 1 + MAX_RECURSION_DEPTH)
    /\ resolved = Found(1 + MAX_RECURSION_DEPTH)

\* C10: no item is fetched at a depth greater than 3 (the start item is at
\* depth 0): the calls that fetch are never nested deeper, and the item a
\* chain reaches at depth 4 is not fetched and makes the result null.
C10_DepthBound ==
    /\ \A i \in DOMAIN stack : i - 1 <= MAX_RECURSION_DEPTH
    /\ (ChainWalked /\ \A j \in 1..(1 + MAX_RECURSION_DEPTH) : ~isRootType(backend[j].wtype))
          => (resolved = Null /\ fetchCount[2 + MAX_RECURSION_DEPTH] = 0)

\* the walk up a chain stopped below the Feature at depth 4
C10_Witness ==
    /\ ChainWalked /\ FirstRootAt(backend, 2 + MAX_RECURSION_DEPTH)
    /\ resolved = Null
    /\ fetchCount[1 + MAX_RECURSION_DEPTH] = 1 /\ fetchCount[2 + MAX_RECURSION_DEPTH] = 0

\* C11 as claimed: in every resolver invocation the visited set never holds
\* more than MAX_VISITED_ITEMS ids, and no more than MAX_VISITED_ITEMS work
\* items are fetched.
C11_VisitedCap ==
    /\ Cardinality(visited) <= MAX_VISITED_ITEMS
    /\ TotalFetches <= MAX_VISITED_ITEMS

\* the links of the parent relation kind, in the order they appear
ParentLinksOf(relations) == SelectSeq(relations, LAMBDA r : r.rel = ParentRel)

\* the item the fourth parent link of item 1 names
FourthParent(b) == ParentLinksOf(b[1].relations)[MAX_PARENT_RELATIONS + 1].url.digits

\* C12 as claimed: in either evolution, the target of the fourth parent link
\* of an expanded item is never expanded as a candidate of that item.
C12_ParentCap ==
    (backend \in WideBackends /\ workItemId = 1) => fetchCount[FourthParent(backend)] = 0

\* C13 as claimed: every tool that runs the resolver bounds it with the
\* QUERY_TIMEOUT_MS timer (the timer is set whenever the resolver runs), and
\* when the timer fires before the resolver has completed the tool returns
\* the timeout error.
C13_TimeoutBounds ==
    /\ rstate = "running" => timer # "off"
    /\ (timer = "fired" /\ rstate = "running") => (hpc = "done" /\ outcome = "timeout")

\* the chain whose item at depth d answers 401, and the error raised for it
AuthChain(d, expired) ==
    StatusChain(d, [Item(401, "Task", <<>>) EXCEPT !.expired = expired])

AuthError(expired) == Throw(IF expired THEN MsgPatExpired ELSE MsgAuthFailed)

\* C14: in the param resolver a 401 answer at depth 0 to 3 raises an error
\* that reaches the handler as it was raised: the top-level call ends with
\* that error, the sibling candidate and the items beyond are never
\* fetched, and the tool returns an error payload (the error of the
\* resolver, or the timeout error when the timer fired first).
C14_AuthPropagates ==
    \A d \in 0..MAX_RECURSION_DEPTH, expired \in BOOLEAN :
        (variant = "param" /\ backend = AuthChain(d, expired) /\ workItemId = 1) =>
            /\ \A i \in ItemIds : i > d + 1 => fetchCount[i] = 0
            /\ Finished =>
                  /\ resolved = AuthError(expired)
                  /\ TotalFetches = d + 1
                  /\ hpc = "done"
                  /\ outcome = "error" \/ (outcome = "timeout" /\ timer = "fired")

\* an expired token reported at depth 3 reached the handler
C14_Witness ==
    /\ variant = "param" /\ backend = AuthChain(MAX_RECURSION_DEPTH, TRUE)
    /\ Finished /\ resolved = Throw(MsgPatExpired)
    /\ fetchCount[1 + MAX_RECURSION_DEPTH] = 1 /\ outcome = "error"

\* find_parent_feature has returned on a backend whose start item answers
\* 404 or 429
StartMissing ==
    /\ tool = "find_parent_feature" /\ workItemId = 1
    /\ \E st \in {404, 429} : backend = StatusChain(0, Item(st, "Task", <<>>))
    /\ Finished /\ hpc = "done"

\* C15 as claimed: when the fetch of the start item is answered with 404 or
\* 429, find_parent_feature returns an error payload, not the payload that
\* reports no ancestor.
C15_StartMissingAborts == StartMissing => outcome \in {"error", "timeout"}

\* C15 amended: when the fetch of the start item is answered with 404 or
\* 429, the resolver returns null after that one fetch and raises nothing,
\* and find_parent_feature reports no ancestor, without an error; only the
\* timer of the param handler, when it fired first, makes the result the
\* timeout error.
C15_StartMissingNotFound ==
    StartMissing =>
        /\ resolved = Null
        /\ TotalFetches = 1
        /\ \/ outcome = "notfound"
           \/ outcome = "timeout" /\ timer = "fired" /\ variant = "param"

\* a throttled start item was reported as having no ancestor
C15_Witness ==
    /\ StartMissing /\ variant = "param"
    /\ backend[1].status = 429 /\ outcome = "notfound" /\ fetchCount[1] = 1

\* the resolver has ended on the chain whose item at depth d answers st
StatusAt(d, st) ==
    /\ backend = StatusChain(d, Item(st, "Task", <<>>)) /\ workItemId = 1
    /\ Finished /\ hpc = "done"

\* what the claims call aborting the operation with an error: the resolver
\* raised, and the tool returned an error payload
Aborted == resolved.kind = "throw" /\ outcome \in {"error", "timeout"}

\* C16 as claimed: a 500 answer aborts the operation with an error when it
\* answers the fetch of the start item, and at depth >= 1 it ends that
\* branch only: the search goes on to the sibling candidate (a Feature, which
\* is returned).
C16_RemoteErrorPolicy ==
    /\ StatusAt(0, 500) => Aborted
    /\ \A d \in 1..MAX_RECURSION_DEPTH : StatusAt(d, 500) => resolved = Found(MaxId)

\* C17 as claimed: a 403 answer to a work-item fetch at any depth aborts the
\* whole operation with an error and is never turned into "not found".
C17_ForbiddenAborts ==
    \A d \in 0..MAX_RECURSION_DEPTH : StatusAt(d, 403) => Aborted

\* C18 as claimed: under every interleaving of two requests, every backend
\* request of an operation carries the credentials of that operation's own
\* inbound request, and the Set objects of two operations are distinct.
C18_Isolation ==
    /\ \A q \in sent :
          /\ q.authorization = Basic(inbound[q.by].pat.text)
          /\ q.url = inbound[q.by].orgUrl.text
    /\ \A r1, r2 \in Requests :
          (r1 # r2 /\ visitedRef[r1] # 0) => visitedRef[r1] # visitedRef[r2]

\* C19 as claimed: no log entry holds the PAT, in the clear or encoded.
C19_NoCredentialLogged == \A e \in log : e.key \notin Pats /\ e.value.text \notin Pats

\* C20 as claimed: when no request is in flight (each one is not yet
\* received, or its handling has completed), getCurrentRequestHeaders returns
\* an empty header set.
C20_NoStaleRequest ==
    (\A r \in Requests : rpc[r] \in {"idle", "done"})
        => getCurrentRequestHeaders = EmptyHeaders

\* C21 as claimed: a get_work_item invocation validates the identity before
\* it requests the item, runs the resolver only after the item was
\* requested, and when it succeeds its payload holds the item and the
\* ancestor result of a finished resolver run, for a validated identity.
C21_GetWorkItemOrder ==
    tool = "get_work_item" =>
        /\ itemRequested => identity = "ok"
        /\ rstate # "idle" => itemRequested
        /\ (hpc = "done" /\ outcome # "error") =>
              /\ identity = "ok"
              /\ Finished
              /\ outcome \in {"item_with_parent", "item_without_parent"}

RootTypes == {"Feature", "Epic"}

\* the items a fixed 200 answer names as parents
ParentsOf(b, i) ==
    IF Succeeds(b, i)
    THEN {b[i].relations[k].url.digits :
            k \in {n \in DOMAIN b[i].relations :
                      b[i].relations[n].rel = ParentRel /\ b[i].relations[n].url.matches}}
    ELSE {}

\* the items within k parent links of the items S
RECURSIVE Within(_, _, _)
Within(b, S, k) ==
    IF k = 0 THEN S
    ELSE Within(b, S \cup UNION {ParentsOf(b, i) \cap DOMAIN b : i \in S}, k - 1)

RootWithin(b, k) ==
    \E j \in Within(b, {workItemId}, k) : Succeeds(b, j) /\ b[j].wtype \in RootTypes

\* every item within reach of the start item is fixed by the scenario
GraphKnown ==
    workItemId \in DOMAIN backend
    /\ \A j \in Within(backend, {workItemId}, MAX_RECURSION_DEPTH + 1) : backend[j].known

\* C22 as claimed: an item the resolver returns is a nearest root-type
\* ancestor: when a root-type item lies within k parent links of the start
\* item, so does the returned item.
C22_Nearest ==
    (GraphKnown /\ Finished /\ resolved.kind = "item") =>
        \A k \in 0..MAX_RECURSION_DEPTH :
            RootWithin(backend, k) => resolved.id \in Within(backend, {workItemId}, k)

\* the step in which the top-level call returns an item
ReturnsItem == rstate = "running" /\ rstate' = "finished" /\ resolved'.kind = "item"

\* C22 amended: an item the resolver returns is the nearest root-type item
\* on the path of parent links the depth-first walk followed to it: it is
\* the item of the innermost call, every call around it is for an item that
\* is not root-type and that names the item of the next call as a parent.
C22_NearestOnPath ==
    [][ReturnsItem =>
          /\ resolved'.id = Top.id
          /\ \A k \in 1..(Len(stack) - 1) :
                backend[stack[k].id].known =>
                    /\ backend[stack[k].id].wtype \notin RootTypes
                    /\ stack[k + 1].id \in ParentsOf(backend, stack[k].id)]_vars

\* the walk went past the Feature behind the second link of item 1 to the
\* Feature two links up the first
C22_Witness ==
    /\ ForkWalked /\ GraphKnown
    /\ HopsTo(backend, 2, 4) /\ IsRoot(backend, 4) /\ IsRoot(backend, 3)
    /\ resolved = Found(4) /\ TotalFetches = 3

\* ------------------------------------------------------ successive calls
\* The tool is called a second time with the same arguments and
\* credentials, after the first call has returned.  Nothing of the first
\* call is handed to the second; its Set is left behind unused.
NextCall ==
    /\ callNo = 1
    /\ hpc = "done" /\ rstate # "running"
    /\ callNo' = 2
    /\ first' = Ended(outcome, resolved, fetchCount)
    /\ hpc' = "start"
    /\ identity' = "none"
    /\ itemRequested' = FALSE
    /\ outcome' = "none"
    /\ timer' = "off"
    /\ rstate' = "idle"
    /\ resolved' = Pending
    /\ stack' = <<>>
    /\ fetchCount' = [i \in DOMAIN backend |-> 0]
    /\ UNCHANGED <<server, request, visited>>

\* the header get_work_item on a backend whose answers are all fixed
TwiceInit ==
    /\ Init
    /\ variant = "header"
    /\ tool = "get_work_item"
    /\ GraphKnown

TwiceNext ==
    \/ ReadConfig
    \/ getWorkItemSend
    \/ getWorkItemResponse
    \/ CallResolver
    \/ ResolverStep
    \/ NextCall

TwiceSpec == TwiceInit /\ [][TwiceNext]_vars

\* C23: the second of two successive get_work_item calls with the same
\* arguments, against unchanged answers, ends as the first did: the same
\* payload, the same resolver result, and the same fetches.
C23_Idempotent ==
    (callNo = 2 /\ hpc = "done") =>
        /\ outcome = first.outcome
        /\ resolved = first.resolved
        /\ fetchCount = first.fetches

\* both calls found the Feature above the Task
C23_Witness ==
    /\ callNo = 2 /\ hpc = "done" /\ backend = Hierarchy /\ workItemId = 1
    /\ outcome = "item_with_parent" /\ resolved = Found(2)
    /\ first.outcome = "item_with_parent"

\* C24: in a resolver invocation no id ever leaves the visited set, an id
\* whose fetch is sent is in the set before that step, and an id that enters
\* the set has not been fetched.
C24_VisitedGrows ==
    [][/\ visited \subseteq visited'
       /\ \A i \in DOMAIN fetchCount :
             fetchCount'[i] > fetchCount[i] => i \in visited
       /\ \A i \in visited' \ visited :
             fetchCount[i] = 0 /\ fetchCount'[i] = 0]_vars

\* the third item of a cycle is marked and its fetch is in flight
C24_Witness ==
    /\ backend = Cycle(3) /\ workItemId = 1 /\ visited = {1, 2, 3}
    /\ stack # <<>> /\ Top.id = 3 /\ Top.pc = "fetching" /\ fetchCount[3] = 1

\* the step in which the innermost call sends its fetch
SendsFetch == stack # <<>> /\ fetchCount'[Top.id] > fetchCount[Top.id]

\* only a call above the start item is in a delay, with its id marked
DelayedAbove ==
    \A k \in DOMAIN stack : stack[k].pc = "delayed" => (k > 1 /\ stack[k].id \in visited)

\* C25: a call at depth >= 1 sends its fetch right after its one delay
\* step, which it takes after its id was marked visited; the call at depth 0
\* sends its fetch with no delay step, and is never in a delay.
C25_DelayBeforeFetch ==
    /\ DelayedAbove
    /\ [][DelayedAbove']_vars
    /\ [][SendsFetch => Top.pc = (IF Depth >= 1 THEN "delayed" ELSE "added")]_vars
    /\ [][(stack' # <<>> /\ stack'[Len(stack')].pc = "delayed" /\ stack' # stack)
            => (Len(stack') = Len(stack) /\ Top.pc = "added" /\ Top.id \in visited)]_vars

\* the fetch of a parent is in flight, after its delay
C25_Witness ==
    /\ Len(stack) = 2 /\ Top.pc = "fetching" /\ fetchCount[Top.id] = 1
    /\ fetchCount[workItemId] = 1

\* the calls whose fetch is in flight
InFlight == {k \in DOMAIN stack : stack[k].pc = "fetching"}

\* only the innermost call fetches, and not while the handler's own request
\* is pending
Nested ==
    /\ Cardinality(InFlight) <= 1
    /\ \A k \in 1..(Len(stack) - 1) : stack[k].pc = "await"
    /\ hpc \in {"validating", "getting"} => stack = <<>>

\* C26: within one operation at most one work-item fetch is in flight: only
\* the innermost call can be fetching while every call around it awaits it,
\* the resolver does not run while the handler's own request is pending, a
\* call is entered only from the loop of the innermost call, and once a
\* sub-walk has fetched a root-type item no sibling is expanded any more.
C26_OneInFlight ==
    /\ Nested
    /\ [][Nested']_vars
    /\ [][Len(stack') > Len(stack) =>
            (Len(stack') = Len(stack) + 1 /\ (stack # <<>> => Top.pc = "loop"))]_vars
    /\ [][(stack # <<>> /\ Top.pc = "fetching" /\ IsRoot(backend, Top.id))
            => (stack' = <<>> \/ stack' = stack)]_vars

\* the second candidate of item 1 is being fetched after the first one was
\* found missing
C26_Witness ==
    /\ backend \in ForkBackends /\ workItemId = 1
    /\ backend[2] = Item(404, "Task", <<>>) /\ fetchCount[2] = 1
    /\ Len(stack) = 2 /\ Top.id = 3 /\ Top.pc = "fetching"

\* C27: the header resolver never raises: it ends with an item or null
\* whatever the fetches answer.  A failed fetch of the start item (401, 403,
\* 404, 429, 500, rejected request) gives null, which find_parent_feature
\* reports as no ancestor; a failed fetch at depth >= 1 ends that branch
\* only, and the sibling Feature is returned.
C27_HeaderSwallows ==
    variant = "header" =>
        /\ resolved.kind \in {"none", "item", "null"}
        /\ (Finished /\ tool = "find_parent_feature") => outcome \in {"found", "notfound"}
        /\ \A d \in 0..MAX_RECURSION_DEPTH, failed \in FailedItems :
              (backend = StatusChain(d, failed) /\ workItemId = 1 /\ Finished) =>
                  IF d = 0
                  THEN resolved = Null /\ TotalFetches = 1
                  ELSE resolved = Found(MaxId)

\* an expired token on the start item was reported as no ancestor
C27_Witness ==
    /\ variant = "header" /\ tool = "find_parent_feature" /\ Finished
    /\ backend = AuthChain(0, TRUE) /\ workItemId = 1
    /\ resolved = Null /\ outcome = "notfound"

RacedCall == variant = "param" /\ tool = "find_parent_feature"

\* the payload is that of the resolver's result unless the timer settled
ResolverSettled ==
    (RacedCall /\ Finished /\ hpc = "done" /\ outcome # "timeout")
        => outcome = PayloadOf(resolved)

\* C28: a param find_parent_feature invocation has one outcome, which never
\* changes once it is returned.  It is the timeout error only if the timer
\* fired while the resolver was running, and then the resolver may go on
\* fetching and end without effect; else it is the payload of what the
\* resolver ended with, whether the timer fires later or not.
C28_FirstSettles ==
    /\ [][RacedCall => (outcome # "none" => outcome' = outcome)]_vars
    /\ [][(RacedCall /\ outcome' = "timeout" /\ outcome # "timeout")
            => (rstate = "running" /\ timer = "armed" /\ timer' = "fired")]_vars
    /\ ResolverSettled
    /\ [][ResolverSettled']_vars

\* the timeout was reported, and the abandoned resolver went on to fetch a
\* parent and to find a Feature
C28_Witness ==
    /\ RacedCall /\ outcome = "timeout" /\ Finished
    /\ resolved.kind = "item" /\ resolved.id # workItemId /\ TotalFetches >= 2

\* the items within reach of the start item over parent links, as far as the
\* depth bound lets the resolver go
ParentReach == Within(backend, {workItemId}, MAX_RECURSION_DEPTH)

\* the returned item was fetched, is root-type, and lies within reach
ReturnedFetched ==
    resolved.kind = "item" =>
        /\ fetchCount[resolved.id] = 1 /\ resolved.id \in visited
        /\ backend[resolved.id].known =>
              (Succeeds(backend, resolved.id) /\ backend[resolved.id].wtype \in RootTypes)
        /\ GraphKnown => resolved.id \in ParentReach

FetchedWithinReach ==
    GraphKnown => \A i \in DOMAIN fetchCount : fetchCount[i] > 0 => i \in ParentReach

\* C29: an item the resolver returns was fetched in this invocation, by a
\* call at depth <= 3 whose answer it is; where the scenario fixes the graph
\* it is a Feature or an Epic whose fetch succeeds and it is the start item
\* or lies within three parent links of it; and no item outside that reach
\* (one that only child or related links lead to) is ever fetched.
C29_ReturnedItem ==
    /\ [](ReturnedFetched /\ FetchedWithinReach)
    /\ [][ReturnsItem =>
            (Top.pc = "fetching" /\ Depth <= MAX_RECURSION_DEPTH /\ resolved'.id = Top.id)]_vars

\* item 1 has a child link, a related link and parent links, and the
\* Feature behind its last parent link was returned
C29_Witness ==
    /\ backend \in WideBackends /\ workItemId = 1 /\ GraphKnown /\ Finished
    /\ backend[1].relations[1].rel = ChildRel
    /\ resolved = Found(MaxId) /\ fetchCount[3] = 0

====
